---- MODULE Spec2Model ----
(***************************************************************************)
(* Model of src/markdown2html.py: markdown_to_html (the line-by-line block *)
(* converter) and format_text (the inline bold/emphasis formatter).        *)
(*                                                                         *)
(* A Python str is modelled as a sequence of one-character strings, so     *)
(* that slicing (s[:-3], s[2:]), startswith, rstrip and the regular        *)
(* expressions act on characters exactly as in the source.                 *)
(***************************************************************************)
EXTENDS Integers, Sequences, FiniteSets, TLC

VARIABLES
    markdown_text,      \* the argument: a list of lines
    idx,                \* position of the for loop (1-based index of the next line)
    html_lines,         \* list of emitted fragments
    in_unordered_list,  \* flag, line 28
    in_ordered_list,    \* flag, line 29
    pc,                 \* "loop" while iterating, "done" after return, "raised" after an exception
    result,             \* the returned string (<<>> until the return)
    calls,              \* the caller: number of calls of markdown_to_html made so far
    first_result        \* the caller: what the first call returned (<<>> until a second call)

vars == <<markdown_text, idx, html_lines, in_unordered_list, in_ordered_list, pc, result,
          calls, first_result>>

----------------------------------------------------------------------------
(* Bounds of the model *)

\* longest document (number of lines) drawn by Init
MaxLines == 3

\* longest text over FormatAlphabet drawn by Init
MaxLen == 6

\* longest letter-strip content over StripAlphabet drawn by Init
MaxContent == 4

----------------------------------------------------------------------------
(* String helpers (Python str methods) *)

\* characters str.rstrip()/str.strip() remove
Whitespace == {" ", "\t", "\n", "\r"}

RECURSIVE rstrip(_)
rstrip(s) ==
    IF s = <<>> \/ s[Len(s)] \notin Whitespace
    THEN s
    ELSE rstrip(SubSeq(s, 1, Len(s) - 1))

RECURSIVE lstrip(_)
lstrip(s) ==
    IF s = <<>> \/ s[1] \notin Whitespace
    THEN s
    ELSE lstrip(Tail(s))

strip(s) == lstrip(rstrip(s))

startswith(s, prefix) ==
    /\ Len(s) >= Len(prefix)
    /\ SubSeq(s, 1, Len(prefix)) = prefix

\* s[n:]
SliceFrom(s, n) == SubSeq(s, n + 1, Len(s))

\* s[:-n]
DropLast(s, n) == SubSeq(s, 1, Len(s) - n)

\* str.replace(ch, '')
RemoveChar(s, ch) == SelectSeq(s, LAMBDA x : x /= ch)

UpperCase == <<"A", "B", "C", "D", "E", "F", "G", "H", "I", "J", "K", "L", "M",
               "N", "O", "P", "Q", "R", "S", "T", "U", "V", "W", "X", "Y", "Z">>
LowerCase == <<"a", "b", "c", "d", "e", "f", "g", "h", "i", "j", "k", "l", "m",
               "n", "o", "p", "q", "r", "s", "t", "u", "v", "w", "x", "y", "z">>

lower_char(c) ==
    IF \E k \in 1..Len(UpperCase) : UpperCase[k] = c
    THEN LowerCase[CHOOSE k \in 1..Len(UpperCase) : UpperCase[k] = c]
    ELSE c

\* str.lower()
lower(s) == [k \in 1..Len(s) |-> lower_char(s[k])]

DigitChars == <<"0", "1", "2", "3", "4", "5", "6", "7", "8", "9">>

\* str(n) for n >= 0, as used by the f-string {level}
RECURSIVE IntToStr(_)
IntToStr(n) ==
    IF n < 10
    THEN <<DigitChars[n + 1]>>
    ELSE IntToStr(n \div 10) \o <<DigitChars[(n % 10) + 1]>>

\* "".join(list)
RECURSIVE Join(_)
Join(list) ==
    IF list = <<>> THEN <<>> ELSE Head(list) \o Join(Tail(list))

----------------------------------------------------------------------------
(* Regular expressions *)

\* number of leading '#' characters: what the greedy group (#+) consumes
RECURSIVE HashRun(_)
HashRun(s) ==
    IF s /= <<>> /\ s[1] = "#" THEN 1 + HashRun(Tail(s)) ELSE 0

\* re.match(r'^(#+) (.*)$', line) succeeds
heading_match(line) ==
    LET k == HashRun(line) IN
    /\ k >= 1
    /\ Len(line) > k
    /\ line[k + 1] = " "
    /\ \A p \in (k + 2)..Len(line) : line[p] /= "\n"

\* len(heading_match.group(1))
heading_level(line) == HashRun(line)

\* heading_match.group(2)
heading_text(line) == SliceFrom(line, HashRun(line) + 1)

\* Positions j >= 3 at which the two-character closer cc ends a lazy (.*?)
\* that started after a two-character opener at positions 1..2.
Closers(s, c1, c2) ==
    {j \in 3..(Len(s) - 1) :
        /\ s[j] = c1
        /\ s[j + 1] = c2
        /\ \A p \in 3..(j - 1) : s[p] /= "\n"}

Min(S) == CHOOSE x \in S : \A y \in S : x <= y

\* re.match(r'\[\[(.*?)\]\]', line) / re.match(r'\(\((.*?)\)\)', line) succeeds
command_match(line, o, c) ==
    /\ startswith(line, <<o, o>>)
    /\ Closers(line, c, c) /= {}

\* command_match.group(1): the shortest text up to the first closer
command_group(line, c) == SubSeq(line, 3, Min(Closers(line, c, c)) - 1)

Max(S) == CHOOSE x \in S : \A y \in S : x >= y

\* the greedy (.*) in place of the lazy (.*?): the longest match
RECURSIVE re_sub_Greedy(_, _, _, _)
re_sub_Greedy(text, m, open, close) ==
    IF text = <<>> THEN <<>>
    ELSE IF startswith(text, <<m, m>>) /\ Closers(text, m, m) /= {}
    THEN LET j == Max(Closers(text, m, m)) IN
         open \o SubSeq(text, 3, j - 1) \o close
              \o re_sub_Greedy(SliceFrom(text, j + 1), m, open, close)
    ELSE <<text[1]>> \o re_sub_Greedy(Tail(text), m, open, close)

\* re.sub(r'MM(.*?)MM', r'<tag>\1</tag>', text) for a marker character M:
\* scan left to right; at each position take the shortest match if any.
RECURSIVE re_sub(_, _, _, _)
re_sub(text, m, open, close) ==
    IF text = <<>> THEN <<>>
    ELSE IF startswith(text, <<m, m>>) /\ Closers(text, m, m) /= {}
    THEN LET j == Min(Closers(text, m, m)) IN
         open \o SubSeq(text, 3, j - 1) \o close
              \o re_sub(SliceFrom(text, j + 1), m, open, close)
    ELSE <<text[1]>> \o re_sub(Tail(text), m, open, close)

----------------------------------------------------------------------------
(* format_text, lines 98-111 *)

format_text(text) ==
    LET bold == re_sub(text, "*", <<"<", "b", ">">>, <<"<", "/", "b", ">">>) IN
    re_sub(bold, "_", <<"<", "e", "m", ">">>, <<"<", "/", "e", "m", ">">>)

----------------------------------------------------------------------------
(* hashlib.md5(content.encode()).hexdigest(), line 69                      *)

\* Code points str.encode() (UTF-8, strict) refuses: lone surrogates. The
\* one-element string "U+DC80" stands for the character '\udc80'.
Surrogates == {"U+DC80"}

\* content.encode() returns (does not raise UnicodeEncodeError)
encodable(content) == \A k \in 1..Len(content) : content[k] \notin Surrogates

\* The digests of the encodable contents that occur in the documents of Docs.

md5_hexdigest(content) ==
    CASE content = <<"a", "b", "c">> ->
           <<"9", "0", "0", "1", "5", "0", "9", "8", "3", "c", "d", "2", "4", "f", "b", "0",
             "d", "6", "9", "6", "3", "f", "7", "d", "2", "8", "e", "1", "7", "f", "7", "2">>
      [] content = <<>> ->
           <<"d", "4", "1", "d", "8", "c", "d", "9", "8", "f", "0", "0", "b", "2", "0", "4",
             "e", "9", "8", "0", "0", "9", "9", "8", "e", "c", "f", "8", "4", "2", "7", "e">>
      [] content = <<"a">> ->
           <<"0", "c", "c", "1", "7", "5", "b", "9", "c", "0", "f", "1", "b", "6", "a", "8",
             "3", "1", "c", "3", "9", "9", "e", "2", "6", "9", "7", "7", "2", "6", "6", "1">>

----------------------------------------------------------------------------
(* Fragments appended to html_lines *)

\* the heading text passed through format_text like every other text
HeadingFragment_Formatted(level, text) ==
    <<"<", "h">> \o IntToStr(level) \o <<">">> \o format_text(text)
        \o <<"<", "/", "h">> \o IntToStr(level) \o <<">", "\n">>

\* f'<h{level}>{text}</h{level}>\n', line 39
HeadingFragment(level, text) ==
    <<"<", "h">> \o IntToStr(level) \o <<">">> \o text
        \o <<"<", "/", "h">> \o IntToStr(level) \o <<">", "\n">>

UlOpen  == <<"<", "u", "l", ">", "\n">>
UlClose == <<"<", "/", "u", "l", ">", "\n">>
OlOpen  == <<"<", "o", "l", ">", "\n">>
OlClose == <<"<", "/", "o", "l", ">", "\n">>

\* f'<li>{format_text(line[2:])}</li>\n', lines 47 and 58
ItemFragment(line) ==
    <<"<", "l", "i", ">">> \o format_text(SliceFrom(line, 2)) \o <<"<", "/", "l", "i", ">", "\n">>

\* f'<p>{md5_hash}</p>\n' and f'<p>{content}</p>\n', lines 70 and 77
CommandFragment(content) ==
    <<"<", "p", ">">> \o content \o <<"<", "/", "p", ">", "\n">>

\* 'c' removed before the lower-casing, 'C' not removed
letter_strip_LowerLast(content) == lower(RemoveChar(content, "c"))

\* .lower().replace('c', '').replace('C', ''), line 76
letter_strip(content) == RemoveChar(RemoveChar(lower(content), "c"), "C")

\* the paragraph left open, to be closed by a later blank line
ParagraphFragment_Unclosed(formatted_line) ==
    <<"<", "p", ">", "\n">> \o formatted_line \o <<"\n">>

\* f'<p>\n{formatted_line}\n</p>\n', line 86
ParagraphFragment(formatted_line) ==
    <<"<", "p", ">", "\n">> \o formatted_line \o <<"\n", "<", "/", "p", ">", "\n">>

\* html_lines[-1][:-3] + '<br/>\n' + formatted_line + '</p>\n', line 84
ContinuedFragment(last, formatted_line) ==
    DropLast(last, 3) \o <<"<", "b", "r", "/", ">", "\n">> \o formatted_line
        \o <<"<", "/", "p", ">", "\n">>

\* html_lines[-1][:-3] + '</p>\n', line 88
BlankClosedFragment(last) ==
    DropLast(last, 3) \o <<"<", "/", "p", ">", "\n">>

\* html_lines and html_lines[-1].startswith('<p>'), lines 83 and 87
LastIsParagraph(frags) ==
    /\ frags /= <<>>
    /\ startswith(frags[Len(frags)], <<"<", "p", ">">>)

\* html_lines[-1] = value
SetLast(frags, value) == [frags EXCEPT ![Len(frags)] = value]

----------------------------------------------------------------------------
(* Documents *)

\* The lines documents are drawn from: every kind of line the loop
\* distinguishes, with and without trailing whitespace.
Lines ==
    { <<"#", " ", "a", " ">>,                             \* "# a "
      <<"#", "#", " ", "*", "*", "a", "*", "*">>,         \* "## **a**"
      <<"#", " ">>,                                       \* "# "
      <<"-", " ", "a">>,                                  \* "- a"
      <<"-", " ", "b">>,                                  \* "- b"
      <<"*", " ", "a">>,                                  \* "* a"
      <<"[", "[", "a", "b", "c", "]", "]">>,              \* "[[abc]]"
      <<"[", "[", "a">>,                                  \* "[[a"
      <<"[", "[", "U+DC80", "]", "]">>,                   \* "[[\udc80]]"
      <<"(", "(", "C", "o", "c", "o", "a", ")", ")">>,    \* "((Cocoa))"
      <<"(", "(", "c">>,                                  \* "((c"
      <<"t", "e", "x", "t">>,                             \* "text"
      <<"_", "_", "b", "_", "_", " ">>,                   \* "__b__ "
      <<>>,                                               \* ""
      <<" ">> }                                           \* " "

\* documents of up to MaxLines lines
LineDocs == UNION { [1..n -> Lines] : n \in 0..MaxLines }

\* The texts format_text is checked on: every string over the two marker
\* characters and a letter, and the example of the documentation.
FormatAlphabet == {"*", "_", "a"}

BoldEmExample ==
    <<"*", "*", "b", "o", "l", "d", "*", "*", " ", "a", "n", "d", " ", "_", "_", "e", "m", "_", "_">>

FormatTexts == UNION { [1..n -> FormatAlphabet] : n \in 0..MaxLen } \cup {BoldEmExample}

\* The contents the letter-strip command is checked on: "((" X "))" for
\* every X over these characters.
StripAlphabet == {"c", "C", "a", "A", ")"}

StripContents == UNION { [1..n -> StripAlphabet] : n \in 0..MaxContent }

StripLine(content) == <<"(", "(">> \o content \o <<")", ")">>

\* The documents markdown_to_html is called with.
Docs ==
    LineDocs \cup { <<t>> : t \in FormatTexts } \cup { <<StripLine(x)>> : x \in StripContents }

----------------------------------------------------------------------------
(* markdown_to_html, lines 14-96 *)

\* line = line.rstrip(), line 32
CurrentLine == rstrip(markdown_text[idx])

\* the blank-line test of line 87 without startswith('<p>'): a blank line
\* rewrites whatever fragment is last
Branch_BlankAny(line, ul, ol, frags) ==
    IF heading_match(line) THEN "heading"
    ELSE IF startswith(line, <<"-", " ">>) THEN "ul_item"
    ELSE IF ul /\ ~startswith(line, <<"-", " ">>) THEN "ul_close"
    ELSE IF startswith(line, <<"*", " ">>) THEN "ol_item"
    ELSE IF ol /\ ~startswith(line, <<"*", " ">>) THEN "ol_close"
    ELSE IF startswith(line, <<"[", "[">>) THEN "hash"
    ELSE IF startswith(line, <<"(", "(">>) THEN "letter_strip"
    ELSE IF strip(line) /= <<>> THEN "text"
    ELSE IF frags /= <<>> THEN "blank"
    ELSE "none"

\* the list-close tests placed before the heading test: a heading closes
\* an open list
Branch_CloseFirst(line, ul, ol, frags) ==
    IF ul /\ ~startswith(line, <<"-", " ">>) THEN "ul_close"
    ELSE IF ol /\ ~ul /\ ~startswith(line, <<"-", " ">>) /\ ~startswith(line, <<"*", " ">>)
    THEN "ol_close"
    ELSE IF heading_match(line) THEN "heading"
    ELSE IF startswith(line, <<"-", " ">>) THEN "ul_item"
    ELSE IF startswith(line, <<"*", " ">>) THEN "ol_item"
    ELSE IF startswith(line, <<"[", "[">>) THEN "hash"
    ELSE IF startswith(line, <<"(", "(">>) THEN "letter_strip"
    ELSE IF strip(line) /= <<>> THEN "text"
    ELSE IF LastIsParagraph(frags) THEN "blank"
    ELSE "none"

\* The branch of the if/elif chain of lines 36-87 that a line takes.
Branch(line, ul, ol, frags) ==
    IF heading_match(line) THEN "heading"
    ELSE IF startswith(line, <<"-", " ">>) THEN "ul_item"
    ELSE IF ul /\ ~startswith(line, <<"-", " ">>) THEN "ul_close"
    ELSE IF startswith(line, <<"*", " ">>) THEN "ol_item"
    ELSE IF ol /\ ~startswith(line, <<"*", " ">>) THEN "ol_close"
    ELSE IF startswith(line, <<"[", "[">>) THEN "hash"
    ELSE IF startswith(line, <<"(", "(">>) THEN "letter_strip"
    ELSE IF strip(line) /= <<>> THEN "text"
    ELSE IF LastIsParagraph(frags) THEN "blank"
    ELSE "none"

CurrentBranch == Branch(CurrentLine, in_unordered_list, in_ordered_list, html_lines)

InLoop == pc = "loop" /\ idx <= Len(markdown_text)

Init ==
    /\ markdown_text \in Docs
    /\ idx = 1
    /\ html_lines = <<>>
    /\ in_unordered_list = FALSE
    /\ in_ordered_list = FALSE
    /\ pc = "loop"
    /\ result = <<>>
    /\ calls = 1
    /\ first_result = <<>>

\* lines 36-40
Heading ==
    /\ InLoop
    /\ CurrentBranch = "heading"
    /\ html_lines' = Append(html_lines,
                            HeadingFragment(heading_level(CurrentLine), heading_text(CurrentLine)))
    /\ idx' = idx + 1
    /\ UNCHANGED <<markdown_text, calls, first_result, in_unordered_list, in_ordered_list, pc, result>>

\* the item branch without the test of line 44: every item opens a list
UnorderedItem_AlwaysOpen ==
    /\ InLoop
    /\ CurrentBranch = "ul_item"
    /\ html_lines' = Append(html_lines, UlOpen) \o <<ItemFragment(CurrentLine)>>
    /\ in_unordered_list' = TRUE
    /\ idx' = idx + 1
    /\ UNCHANGED <<markdown_text, calls, first_result, in_ordered_list, pc, result>>

\* lines 43-48
UnorderedItem ==
    /\ InLoop
    /\ CurrentBranch = "ul_item"
    /\ html_lines' = (IF in_unordered_list THEN html_lines ELSE Append(html_lines, UlOpen))
                        \o <<ItemFragment(CurrentLine)>>
    /\ in_unordered_list' = TRUE
    /\ idx' = idx + 1
    /\ UNCHANGED <<markdown_text, calls, first_result, in_ordered_list, pc, result>>

\* lines 49-51
UnorderedClose ==
    /\ InLoop
    /\ CurrentBranch = "ul_close"
    /\ html_lines' = Append(html_lines, UlClose)
    /\ in_unordered_list' = FALSE
    /\ idx' = idx + 1
    /\ UNCHANGED <<markdown_text, calls, first_result, in_ordered_list, pc, result>>

\* lines 54-59
OrderedItem ==
    /\ InLoop
    /\ CurrentBranch = "ol_item"
    /\ html_lines' = (IF in_ordered_list THEN html_lines ELSE Append(html_lines, OlOpen))
                        \o <<ItemFragment(CurrentLine)>>
    /\ in_ordered_list' = TRUE
    /\ idx' = idx + 1
    /\ UNCHANGED <<markdown_text, calls, first_result, in_unordered_list, pc, result>>

\* lines 60-62
OrderedClose ==
    /\ InLoop
    /\ CurrentBranch = "ol_close"
    /\ html_lines' = Append(html_lines, OlClose)
    /\ in_ordered_list' = FALSE
    /\ idx' = idx + 1
    /\ UNCHANGED <<markdown_text, calls, first_result, in_unordered_list, pc, result>>

\* command_match.group(1) taken without the test of line 67: a line without
\* a closing "]]" raises AttributeError
HashCommand_NoTest ==
    /\ InLoop
    /\ CurrentBranch = "hash"
    /\ IF command_match(CurrentLine, "[", "]") /\ encodable(command_group(CurrentLine, "]"))
       THEN /\ html_lines' =
                  Append(html_lines, CommandFragment(md5_hexdigest(command_group(CurrentLine, "]"))))
            /\ idx' = idx + 1
            /\ UNCHANGED pc
       ELSE /\ pc' = "raised"
            /\ UNCHANGED <<html_lines, idx>>
    /\ UNCHANGED <<markdown_text, calls, first_result, in_unordered_list, in_ordered_list, result>>

\* lines 65-71: without a closing "]]" the branch does nothing; with one,
\* content.encode() raises UnicodeEncodeError on a lone surrogate and the
\* exception leaves the function
HashCommand ==
    /\ InLoop
    /\ CurrentBranch = "hash"
    /\ IF ~command_match(CurrentLine, "[", "]")
       THEN /\ idx' = idx + 1
            /\ UNCHANGED <<html_lines, pc>>
       ELSE IF encodable(command_group(CurrentLine, "]"))
       THEN /\ html_lines' =
                  Append(html_lines, CommandFragment(md5_hexdigest(command_group(CurrentLine, "]"))))
            /\ idx' = idx + 1
            /\ UNCHANGED pc
       ELSE /\ pc' = "raised"
            /\ UNCHANGED <<html_lines, idx>>
    /\ UNCHANGED <<markdown_text, calls, first_result, in_unordered_list, in_ordered_list, result>>

\* lines 73-78: without a closing "))" the branch does nothing
LetterStripCommand ==
    /\ InLoop
    /\ CurrentBranch = "letter_strip"
    /\ html_lines' =
          IF command_match(CurrentLine, "(", ")")
          THEN Append(html_lines, CommandFragment(letter_strip(command_group(CurrentLine, ")"))))
          ELSE html_lines
    /\ idx' = idx + 1
    /\ UNCHANGED <<markdown_text, calls, first_result, in_unordered_list, in_ordered_list, pc, result>>

\* lines 81-86
Paragraph ==
    /\ InLoop
    /\ CurrentBranch = "text"
    /\ html_lines' =
          IF LastIsParagraph(html_lines)
          THEN SetLast(html_lines,
                       ContinuedFragment(html_lines[Len(html_lines)], format_text(CurrentLine)))
          ELSE Append(html_lines, ParagraphFragment(format_text(CurrentLine)))
    /\ idx' = idx + 1
    /\ UNCHANGED <<markdown_text, calls, first_result, in_unordered_list, in_ordered_list, pc, result>>

\* lines 87-88
BlankLine ==
    /\ InLoop
    /\ CurrentBranch = "blank"
    /\ html_lines' = SetLast(html_lines, BlankClosedFragment(html_lines[Len(html_lines)]))
    /\ idx' = idx + 1
    /\ UNCHANGED <<markdown_text, calls, first_result, in_unordered_list, in_ordered_list, pc, result>>

\* no branch of the chain applies: the iteration changes nothing
NoBranch ==
    /\ InLoop
    /\ CurrentBranch = "none"
    /\ idx' = idx + 1
    /\ UNCHANGED <<markdown_text, calls, first_result, html_lines, in_unordered_list, in_ordered_list, pc, result>>

\* the second test written as elif: only one of two open lists is closed
CloseLists_Elif(frags, ul, ol) ==
    frags \o (IF ul THEN <<UlClose>> ELSE IF ol THEN <<OlClose>> ELSE <<>>)

\* the two tests of lines 91-94 in the other order: </ol> before </ul>
CloseLists_OlFirst(frags, ul, ol) ==
    frags \o (IF ol THEN <<OlClose>> ELSE <<>>) \o (IF ul THEN <<UlClose>> ELSE <<>>)

\* lines 91-94
CloseLists(frags, ul, ol) ==
    frags \o (IF ul THEN <<UlClose>> ELSE <<>>) \o (IF ol THEN <<OlClose>> ELSE <<>>)

\* lines 90-96: the loop is over; close the lists and return the joined string
EndOfDocument ==
    /\ pc = "loop"
    /\ idx > Len(markdown_text)
    /\ html_lines' = CloseLists(html_lines, in_unordered_list, in_ordered_list)
    /\ result' = Join(html_lines')
    /\ pc' = "done"
    /\ UNCHANGED <<markdown_text, calls, first_result, idx, in_unordered_list, in_ordered_list>>

Next ==
    \/ Heading
    \/ UnorderedItem
    \/ UnorderedClose
    \/ OrderedItem
    \/ OrderedClose
    \/ HashCommand
    \/ LetterStripCommand
    \/ Paragraph
    \/ BlankLine
    \/ NoBranch
    \/ EndOfDocument

Spec == Init /\ [][Next]_vars

\* The caller keeps the html_lines and the flags of the first call for the
\* second one (a module-level list, a mutable default argument).
CallAgain_Stale ==
    /\ pc = "done"
    /\ calls = 1
    /\ calls' = 2
    /\ first_result' = result
    /\ idx' = 1
    /\ pc' = "loop"
    /\ result' = <<>>
    /\ UNCHANGED <<markdown_text, html_lines, in_unordered_list, in_ordered_list>>

\* A caller that has the result of one call calls markdown_to_html again
\* with the same list of lines: lines 27-29 build the locals anew.
CallAgain ==
    /\ pc = "done"
    /\ calls = 1
    /\ calls' = 2
    /\ first_result' = result
    /\ html_lines' = <<>>
    /\ in_unordered_list' = FALSE
    /\ in_ordered_list' = FALSE
    /\ idx' = 1
    /\ pc' = "loop"
    /\ result' = <<>>
    /\ UNCHANGED markdown_text

NextTwice ==
    \/ Next
    \/ CallAgain

\* markdown_to_html called twice on the same document
SpecTwice == Init /\ [][NextTwice]_vars

\* The function body is sequential code: a step that can be taken is taken.
LiveSpec == Spec /\ WF_vars(Next)

----------------------------------------------------------------------------
(* Vocabulary of the properties *)

\* number of fragments equal to f
Count(frags, f) == Cardinality({k \in 1..Len(frags) : frags[k] = f})

Last(seq) == seq[Len(seq)]

\* sub occurs in s as a contiguous run of characters
HasSub(s, sub) ==
    \E i \in 0..(Len(s) - Len(sub)) : SubSeq(s, i + 1, i + Len(sub)) = sub

endswith(s, suffix) ==
    /\ Len(s) >= Len(suffix)
    /\ SubSeq(s, Len(s) - Len(suffix) + 1, Len(s)) = suffix

\* the fragment with its line feeds left out
Flat(fragment) == RemoveChar(fragment, "\n")

POpen  == <<"<", "p", ">">>
PClose == <<"<", "/", "p", ">">>
BrTag  == <<"<", "b", "r", "/", ">">>

\* the line is one or more '#', one space, and a text
HeadingShape(line) ==
    /\ HashRun(line) >= 1
    /\ Len(line) > HashRun(line)
    /\ line[HashRun(line) + 1] = " "

\* A line that is paragraph text when no list is open: not blank, no
\* heading, no list item, no command prefix.
PlainText(raw) ==
    LET line == rstrip(raw) IN
    /\ line /= <<>>
    /\ ~HeadingShape(raw)
    /\ ~startswith(line, <<"-", " ">>)
    /\ ~startswith(line, <<"*", " ">>)
    /\ ~startswith(line, <<"[", "[">>)
    /\ ~startswith(line, <<"(", "(">>)

Blank(raw) == \A k \in 1..Len(raw) : raw[k] \in Whitespace

Done == pc = "done"

NumLines == Len(markdown_text)

----------------------------------------------------------------------------
(* C1 *)

\* C1: list balance. At every point of the conversion the number of <ul>
\* fragments emitted exceeds the number of </ul> fragments by one exactly
\* while the unordered list is open, and likewise for <ol>, </ol>; in the
\* returned document the numbers are equal: a list still open after the
\* last line has been closed at end of document.
C1_ListBalance ==
    /\ Count(html_lines, UlOpen)
         = Count(html_lines, UlClose) + (IF in_unordered_list /\ ~Done THEN 1 ELSE 0)
    /\ Count(html_lines, OlOpen)
         = Count(html_lines, OlClose) + (IF in_ordered_list /\ ~Done THEN 1 ELSE 0)
    /\ Done => /\ Count(html_lines, UlOpen) = Count(html_lines, UlClose)
               /\ Count(html_lines, OlOpen) = Count(html_lines, OlClose)

\* both lists were still open after the last line and the document was returned
C1_Witness ==
    /\ Done
    /\ in_unordered_list
    /\ in_ordered_list
    /\ Count(html_lines, UlClose) = 1
    /\ Count(html_lines, OlClose) = 1

----------------------------------------------------------------------------
(* C2 *)

\* C2: when the last line is plain text and the line before it is an
\* unordered item, the list is closed with </ul> and the text line is then
\* still processed: the returned fragments end with </ul> followed by a new
\* paragraph containing the formatted text, with one <ul>, </ul> pair for
\* ["- a", "- b", "text"].
C2_ListCloseThenProcess ==
    (/\ Done
     /\ NumLines >= 2
     /\ startswith(markdown_text[NumLines - 1], <<"-", " ">>)
     /\ PlainText(markdown_text[NumLines]))
    => /\ Len(html_lines) >= 2
       /\ html_lines[Len(html_lines) - 1] = UlClose
       /\ startswith(Last(html_lines), POpen)
       /\ HasSub(Last(html_lines), format_text(rstrip(markdown_text[NumLines])))
       /\ Count(html_lines, UlClose) = Count(html_lines, UlOpen)

----------------------------------------------------------------------------
(* C3 *)

\* C3: a document of two plain-text lines A, B yields one paragraph
\* fragment, which is <p>, format_text(A), <br/>, format_text(B), </p>
\* with nothing but line feeds in between.
C3_TwoLinesOneParagraph ==
    (/\ Done
     /\ NumLines = 2
     /\ PlainText(markdown_text[1])
     /\ PlainText(markdown_text[2]))
    => /\ Len(html_lines) = 1
       /\ Flat(html_lines[1])
            = POpen \o format_text(rstrip(markdown_text[1])) \o BrTag
                \o format_text(rstrip(markdown_text[2])) \o PClose

----------------------------------------------------------------------------
(* C4 *)

\* C4: a blank line ends the open paragraph: the document [A, blank, B] of
\* plain-text lines A, B yields two paragraph fragments, the second one
\* opened by B.
C4_BlankLineSeparates ==
    (/\ Done
     /\ NumLines = 3
     /\ PlainText(markdown_text[1])
     /\ Blank(markdown_text[2])
     /\ PlainText(markdown_text[3]))
    => /\ Len(html_lines) = 2
       /\ startswith(html_lines[1], POpen)
       /\ startswith(html_lines[2], POpen)
       /\ HasSub(html_lines[2], format_text(rstrip(markdown_text[3])))
       /\ ~HasSub(html_lines[1], format_text(rstrip(markdown_text[3])))

----------------------------------------------------------------------------
(* C5 *)

\* the line opens a command with "[[" or "((" and never closes it
UnclosedCommand(raw) ==
    LET line == rstrip(raw) IN
    \/ startswith(line, <<"[", "[">>) /\ ~HasSub(SliceFrom(line, 2), <<"]", "]">>)
    \/ startswith(line, <<"(", "(">>) /\ ~HasSub(SliceFrom(line, 2), <<")", ")">>)

\* C5: a one-line document whose line opens a command without closing it
\* is returned as a paragraph containing the formatted line.
C5_UnclosedCommandIsText ==
    (/\ Done
     /\ NumLines = 1
     /\ UnclosedCommand(markdown_text[1]))
    => /\ Len(html_lines) = 1
       /\ startswith(html_lines[1], POpen)
       /\ HasSub(html_lines[1], format_text(rstrip(markdown_text[1])))

----------------------------------------------------------------------------
(* C6 *)

\* '<h', k, '>', text, '</h', k, '>' and a line feed
HTag(k, text) ==
    <<"<", "h">> \o IntToStr(k) \o <<">">> \o text \o <<"<", "/", "h">> \o IntToStr(k)
        \o <<">", "\n">>

\* C6 as stated: for every line that is k >= 1 '#', one space and a text T,
\* in every parser state, the iteration appends exactly <hk>T</hk> with T
\* verbatim.
C6_HeadingEveryLine ==
    [][(InLoop /\ HeadingShape(markdown_text[idx]))
       => LET raw == markdown_text[idx] IN
          html_lines' = Append(html_lines, HTag(HashRun(raw), SliceFrom(raw, HashRun(raw) + 1)))]_vars

\* the line holds no line feed
OneLine(line) == \A k \in 1..Len(line) : line[k] /= "\n"

\* C6 amended: for every line that, once its trailing whitespace is removed,
\* is k >= 1 '#', one space and a text T without line feed (so T is not
\* empty and does not end in whitespace), in every parser state, the
\* iteration appends exactly <hk>T</hk> with T verbatim (not formatted) and
\* leaves the earlier fragments and both list flags as they are.
C6_HeadingStrippedLine ==
    [][(InLoop /\ HeadingShape(rstrip(markdown_text[idx])) /\ OneLine(rstrip(markdown_text[idx])))
       => LET line == rstrip(markdown_text[idx]) IN
          /\ html_lines' = Append(html_lines, HTag(HashRun(line), SliceFrom(line, HashRun(line) + 1)))
          /\ UNCHANGED <<in_unordered_list, in_ordered_list>>]_vars

\* the heading "## **a**" has been processed while an unordered list is open
C6_Witness ==
    /\ pc = "loop"
    /\ idx > 1
    /\ markdown_text[idx - 1] = <<"#", "#", " ", "*", "*", "a", "*", "*">>
    /\ in_unordered_list
    /\ Last(html_lines) = <<"<", "h", "2", ">", "*", "*", "a", "*", "*", "<", "/", "h", "2", ">", "\n">>

----------------------------------------------------------------------------
(* C7 *)

\* the document ends with a line processed as paragraph text
EndsWithParagraphLine ==
    /\ Done
    /\ NumLines >= 1
    /\ PlainText(markdown_text[NumLines])
    /\ LastIsParagraph(html_lines)

----------------------------------------------------------------------------
(* C8 *)

\* the line is "((", a text, "))" and possibly more
LetterStripShape(line) ==
    /\ startswith(line, <<"(", "(">>)
    /\ HasSub(SliceFrom(line, 2), <<")", ")">>)

\* where the first "))" after the opening "((" starts
FirstClose(line) ==
    CHOOSE j \in 3..(Len(line) - 1) :
        /\ line[j] = ")" /\ line[j + 1] = ")"
        /\ \A i \in 3..(j - 1) : ~(line[i] = ")" /\ line[i + 1] = ")")

\* X lower-cased with every "c" removed, computed letter by letter
WithoutC(x) == lower(SelectSeq(x, LAMBDA ch : ch \notin {"c", "C"}))

\* C8: a line ((X)) processed while no list is open appends the paragraph
\* <p>Y</p>, where X is the text up to the first "))" and Y is X lower-cased
\* with every "c" removed; Y holds neither "c" nor "C"; ((Cocoa)) gives
\* <p>ooa</p>.
C8_LetterStrip ==
    [][(InLoop /\ ~in_unordered_list /\ ~in_ordered_list /\ LetterStripShape(rstrip(markdown_text[idx])))
       => LET line == rstrip(markdown_text[idx])
              X == SubSeq(line, 3, FirstClose(line) - 1)
              Y == WithoutC(X)
          IN /\ html_lines' = Append(html_lines, POpen \o Y \o PClose \o <<"\n">>)
             /\ \A k \in 1..Len(Y) : Y[k] \notin {"c", "C"}
             /\ X = <<"C", "o", "c", "o", "a">> => Y = <<"o", "o", "a">>]_vars

\* ["((Cocoa))"] has been processed
C8_Witness ==
    /\ markdown_text = << <<"(", "(", "C", "o", "c", "o", "a", ")", ")">> >>
    /\ idx = 2
    /\ html_lines = << <<"<", "p", ">", "o", "o", "a", "<", "/", "p", ">", "\n">> >>

----------------------------------------------------------------------------
(* C9 *)

BOpen   == <<"<", "b", ">">>
BClose  == <<"<", "/", "b", ">">>
EmOpen  == <<"<", "e", "m", ">">>
EmClose == <<"<", "/", "e", "m", ">">>

\* the text with every tag written back as the marker it came from
RECURSIVE Untag(_)
Untag(s) ==
    IF s = <<>> THEN <<>>
    ELSE IF startswith(s, BOpen) THEN <<"*", "*">> \o Untag(SliceFrom(s, 3))
    ELSE IF startswith(s, BClose) THEN <<"*", "*">> \o Untag(SliceFrom(s, 4))
    ELSE IF startswith(s, EmOpen) THEN <<"_", "_">> \o Untag(SliceFrom(s, 4))
    ELSE IF startswith(s, EmClose) THEN <<"_", "_">> \o Untag(SliceFrom(s, 5))
    ELSE <<s[1]>> \o Untag(Tail(s))

\* positions at which sub starts in s
Starts(s, sub) == {p \in 1..(Len(s) - Len(sub) + 1) : SubSeq(s, p, p + Len(sub) - 1) = sub}

\* shortest match: the text between an opening tag and the next closing tag
\* holds no marker pair "mm"
SpansShortest(s, open, close, m) ==
    \A p \in Starts(s, open) :
        /\ \E q \in Starts(s, close) : q > p
        /\ LET q == Min({r \in Starts(s, close) : r > p}) IN
           ~HasSub(SubSeq(s, p + Len(open), q - 1), <<m, m>>)

\* leftmost, exhaustive match: after a marker "mm" left in the text there is
\* neither another "mm" nor a tag of this marker
NothingLeft(s, open, m) ==
    \A p \in Starts(s, <<m, m>>) :
        LET rest == SliceFrom(s, p + 1) IN
        /\ ~HasSub(rest, <<m, m>>)
        /\ ~HasSub(rest, open)

\* the text holds a complete pair of markers "mm" ... "mm"
HasPair(t, m) ==
    \E i \in Starts(t, <<m, m>>) : \E j \in Starts(t, <<m, m>>) : j >= i + 2

\* the document is one text of FormatTexts, returned as one paragraph
FormattedOne ==
    /\ Done
    /\ NumLines = 1
    /\ markdown_text[1] \in FormatTexts
    /\ markdown_text[1] /= <<>>

\* the content of the paragraph <p>\n ... \n</p>\n
ParagraphBody(fragment) == SubSeq(fragment, 5, Len(fragment) - 6)

\* C9: the paragraph of a text t holds format_text(t): t with each
\* leftmost-shortest **S** written <b>S</b> and each __S__ written
\* <em>S</em> (writing the markers back gives t; no span holds its own
\* marker pair; no complete pair is left over); a text without complete
\* marker pair is unchanged; "**bold** and __em__" gives
\* "<b>bold</b> and <em>em</em>".
C9_FormatText ==
    FormattedOne
    => LET t == markdown_text[1]
           body == ParagraphBody(html_lines[1])
       IN /\ html_lines = << POpen \o <<"\n">> \o body \o <<"\n">> \o PClose \o <<"\n">> >>
          /\ Untag(body) = t
          /\ SpansShortest(body, BOpen, BClose, "*")
          /\ SpansShortest(body, EmOpen, EmClose, "_")
          /\ NothingLeft(body, BOpen, "*")
          /\ NothingLeft(body, EmOpen, "_")
          /\ Cardinality(Starts(body, BOpen)) = Cardinality(Starts(body, BClose))
          /\ Cardinality(Starts(body, EmOpen)) = Cardinality(Starts(body, EmClose))
          /\ (~HasPair(t, "*") /\ ~HasPair(t, "_")) => body = t
          /\ t = BoldEmExample
               => body = BOpen \o <<"b", "o", "l", "d">> \o BClose \o <<" ", "a", "n", "d", " ">>
                           \o EmOpen \o <<"e", "m">> \o EmClose

\* a text with a bold span holding emphasis markers and a marker left over
\* has been formatted
C9_Witness ==
    /\ FormattedOne
    /\ markdown_text[1] = <<"*", "*", "_", "*", "*", "*">>
    /\ ParagraphBody(html_lines[1]) = BOpen \o <<"_">> \o BClose \o <<"*">>

----------------------------------------------------------------------------
(* C10 *)

\* no line holds a character that str.encode() refuses
NoSurrogate ==
    \A k \in 1..NumLines : \A i \in 1..Len(markdown_text[k]) : markdown_text[k][i] \notin Surrogates

----------------------------------------------------------------------------
(* C11 *)

----------------------------------------------------------------------------
(* C12 *)

\* C12: after any prefix of any document at most one of the two list flags
\* is true.
C12_AtMostOneList == ~(in_unordered_list /\ in_ordered_list)

----------------------------------------------------------------------------
(* C13 *)

\* C13: when the last line is plain text and the line before it is an
\* ordered item processed as such, the list is closed with </ol>, the flag
\* is cleared and the text line is then still processed: the returned
\* fragments end with </ol> followed by a new paragraph containing the
\* formatted text, as for ["* a", "text"].
C13_OrderedCloseThenProcess ==
    (/\ Done
     /\ NumLines = 2
     /\ startswith(markdown_text[1], <<"*", " ">>)
     /\ PlainText(markdown_text[2]))
    => /\ ~in_ordered_list
       /\ Len(html_lines) = 4
       /\ html_lines[1] = OlOpen
       /\ html_lines[3] = OlClose
       /\ startswith(html_lines[4], POpen)
       /\ HasSub(html_lines[4], format_text(rstrip(markdown_text[2])))

----------------------------------------------------------------------------
(* C14 *)

\* the line is one the heading rule recognises
HeadingLine(raw) == HeadingShape(rstrip(raw)) /\ OneLine(rstrip(raw))

\* the line is a list item with the given marker
ItemLine(raw, marker) == startswith(rstrip(raw), <<marker, " ">>)

ListTags == {UlOpen, UlClose, OlOpen, OlClose}

\* C14: processing a heading line changes neither list flag and appends one
\* fragment that is no list tag, the earlier fragments staying as they are;
\* a heading between two items of the same list kind stays inside one list:
\* the second item emits no second opening tag.
C14_HeadingKeepsList ==
    /\ [][(InLoop /\ HeadingLine(markdown_text[idx]))
          => /\ UNCHANGED <<in_unordered_list, in_ordered_list>>
             /\ Len(html_lines') = Len(html_lines) + 1
             /\ SubSeq(html_lines', 1, Len(html_lines)) = html_lines
             /\ Last(html_lines') \notin ListTags]_vars
    /\ [](\A marker \in {"-", "*"} :
            (/\ Done
             /\ NumLines = 3
             /\ ItemLine(markdown_text[1], marker)
             /\ HeadingLine(markdown_text[2])
             /\ ItemLine(markdown_text[3], marker))
            => /\ Len(html_lines) = 5
               /\ Count(html_lines, UlOpen) + Count(html_lines, OlOpen) = 1
               /\ Count(html_lines, UlClose) + Count(html_lines, OlClose) = 1
               /\ Last(html_lines) \in {UlClose, OlClose})

\* a heading between two unordered items: one <ul>, closed at end of document
C14_Witness ==
    /\ Done
    /\ markdown_text = << <<"-", " ", "a">>,
                          <<"#", "#", " ", "*", "*", "a", "*", "*">>,
                          <<"-", " ", "b">> >>
    /\ html_lines[1] = UlOpen
    /\ html_lines[3] = <<"<", "h", "2", ">", "*", "*", "a", "*", "*", "<", "/", "h", "2", ">", "\n">>
    /\ html_lines[5] = UlClose
    /\ Count(html_lines, UlOpen) = 1

----------------------------------------------------------------------------
(* C15 *)

\* the line is a command with its closing pair: [[..]] or ((..))
ClosedCommandLine(raw) ==
    LET line == rstrip(raw) IN
    \/ startswith(line, <<"[", "[">>) /\ HasSub(SliceFrom(line, 2), <<"]", "]">>)
    \/ startswith(line, <<"(", "(">>) /\ HasSub(SliceFrom(line, 2), <<")", ")">>)

\* C15: with no list open, a blank line that follows a heading, a command
\* paragraph, a list closing tag or another blank line (a paragraph already
\* closed) leaves the fragments exactly as they are.
C15_BlankLineNoOp ==
    [][(/\ InLoop
        /\ idx > 1
        /\ Blank(markdown_text[idx])
        /\ ~in_unordered_list
        /\ ~in_ordered_list
        /\ html_lines /= <<>>
        /\ \/ HeadingLine(markdown_text[idx - 1])
           \/ ClosedCommandLine(markdown_text[idx - 1]) /\ LastIsParagraph(html_lines)
           \/ Last(html_lines) \in {UlClose, OlClose}
           \/ Blank(markdown_text[idx - 1]))
       => html_lines' = html_lines]_vars

----------------------------------------------------------------------------
(* C16 *)

\* C16: a plain-text line that follows the paragraph of a hash or
\* letter-strip command opens a new paragraph fragment and leaves the
\* command's fragment, a closed paragraph, as it is.
C16_TextAfterCommand ==
    (/\ Done
     /\ NumLines = 2
     /\ ClosedCommandLine(markdown_text[1])
     /\ PlainText(markdown_text[2]))
    => /\ Len(html_lines) = 2
       /\ startswith(html_lines[1], POpen)
       /\ endswith(html_lines[1], PClose \o <<"\n">>)
       /\ ~HasSub(html_lines[1], BrTag)
       /\ startswith(html_lines[2], POpen)
       /\ HasSub(html_lines[2], format_text(rstrip(markdown_text[2])))

----------------------------------------------------------------------------
(* C17 *)

\* the list tags among the fragments, in the order of emission
TagSeq(frags) == SelectSeq(frags, LAMBDA f : f \in ListTags)

\* The lists left open by a sequence of list tags, innermost last; <<"bad">>
\* once a closing tag does not match the innermost open list.
RECURSIVE Nesting(_, _)
Nesting(tags, stack) ==
    IF tags = <<>> \/ stack = <<"bad">> THEN stack
    ELSE LET tag == Head(tags) IN
         Nesting(Tail(tags),
                 IF tag = UlOpen THEN Append(stack, "ul")
                 ELSE IF tag = OlOpen THEN Append(stack, "ol")
                 ELSE IF stack /= <<>> /\ Last(stack) = (IF tag = UlClose THEN "ul" ELSE "ol")
                 THEN DropLast(stack, 1)
                 ELSE <<"bad">>)

OpenLists == Nesting(TagSeq(html_lines), <<>>)

LiOpen == <<"<", "l", "i", ">">>

\* C17: the list tags emitted so far never close a list other than the
\* innermost open one, and in the returned document every list is closed
\* (the sequence of <ul>, </ul>, <ol>, </ol> is well bracketed); while an
\* unordered list is open, no line emits <ol>, </ol> or an ordered item.
C17_ListTagsNested ==
    /\ [](OpenLists /= <<"bad">>)
    /\ [](Done => OpenLists = <<>>)
    /\ [][(InLoop /\ in_unordered_list)
          => /\ Count(html_lines', OlOpen) = Count(html_lines, OlOpen)
             /\ Count(html_lines', OlClose) = Count(html_lines, OlClose)
             /\ ~(/\ ItemLine(markdown_text[idx], "*")
                  /\ Len(html_lines') > Len(html_lines)
                  /\ startswith(Last(html_lines'), LiOpen))]_vars

\* an unordered list inside an ordered one, both closed at end of document
C17_Witness ==
    /\ Done
    /\ in_unordered_list
    /\ in_ordered_list
    /\ TagSeq(html_lines) = <<OlOpen, UlOpen, UlClose, OlClose>>

----------------------------------------------------------------------------
(* C18 *)

\* the step processes an item line with the given marker and emits its <li>
ItemEmitted(marker) ==
    /\ InLoop
    /\ ItemLine(markdown_text[idx], marker)
    /\ Len(html_lines') > Len(html_lines)
    /\ startswith(Last(html_lines'), LiOpen)

\* the last fragment is preceded by an opening tag not yet matched by its
\* closing tag
InsideList(frags, open, close) ==
    \E p \in 1..(Len(frags) - 1) :
        /\ frags[p] = open
        /\ \A q \in (p + 1)..(Len(frags) - 1) : frags[q] /= close

\* C18: an item emitted for a "- " line leaves in_unordered_list true and
\* is preceded by a <ul> not yet matched by </ul>; an item emitted for a
\* "* " line leaves in_ordered_list true and is preceded by an <ol> not yet
\* matched by </ol>; a step emits an opening tag only when it turns the flag
\* of that list from false to true, and then emits one.
C18_ItemsInsideOwnList ==
    [][/\ ItemEmitted("-")
          => (in_unordered_list' /\ InsideList(html_lines', UlOpen, UlClose))
       /\ ItemEmitted("*")
          => (in_ordered_list' /\ InsideList(html_lines', OlOpen, OlClose))
       /\ Count(html_lines', UlOpen) /= Count(html_lines, UlOpen)
          => /\ ~in_unordered_list
             /\ in_unordered_list'
             /\ Count(html_lines', UlOpen) = Count(html_lines, UlOpen) + 1
       /\ Count(html_lines', OlOpen) /= Count(html_lines, OlOpen)
          => /\ ~in_ordered_list
             /\ in_ordered_list'
             /\ Count(html_lines', OlOpen) = Count(html_lines, OlOpen) + 1]_vars

\* the second item of an unordered list has been emitted into the open list
C18_Witness ==
    /\ pc = "loop"
    /\ idx = 3
    /\ ItemLine(markdown_text[1], "-")
    /\ ItemLine(markdown_text[2], "-")
    /\ in_unordered_list
    /\ Len(html_lines) = 3
    /\ html_lines[1] = UlOpen
    /\ startswith(html_lines[3], LiOpen)

----------------------------------------------------------------------------
(* C19 *)

\* the line, once its trailing whitespace is removed, is not empty and is no
\* heading, list item or command
TextLine(raw) ==
    LET line == rstrip(raw) IN
    /\ line /= <<>>
    /\ ~HeadingLine(raw)
    /\ ~startswith(line, <<"-", " ">>)
    /\ ~startswith(line, <<"*", " ">>)
    /\ ~startswith(line, <<"[", "[">>)
    /\ ~startswith(line, <<"(", "(">>)

\* C19: a step never removes a fragment and never changes a fragment other
\* than the last; it changes the last fragment only when processing a
\* plain-text or blank line with no list open, only when that fragment
\* starts with <p>, and then appends nothing: headings, list tags and list
\* items stay as emitted.
C19_AppendOnlyButLast ==
    [][/\ Len(html_lines') >= Len(html_lines)
       /\ \A k \in 1..(Len(html_lines) - 1) : html_lines'[k] = html_lines[k]
       /\ (html_lines /= <<>> /\ html_lines'[Len(html_lines)] /= Last(html_lines))
          => /\ InLoop
             /\ TextLine(markdown_text[idx]) \/ Blank(markdown_text[idx])
             /\ startswith(Last(html_lines), POpen)
             /\ Len(html_lines') = Len(html_lines)
             /\ ~in_unordered_list
             /\ ~in_ordered_list]_vars

\* a second text line has rewritten the paragraph that follows a heading
C19_Witness ==
    /\ pc = "loop"
    /\ idx = 4
    /\ HeadingLine(markdown_text[1])
    /\ TextLine(markdown_text[2])
    /\ TextLine(markdown_text[3])
    /\ Len(html_lines) = 2
    /\ startswith(html_lines[1], <<"<", "h">>)
    /\ HasSub(html_lines[2], BrTag)

====
